---------------------------- MODULE Spec2Model ----------------------------
(***************************************************************************)
(* A model of llm_fastapi:                                                 *)
(*   - the Batch Annotator (src/categorize_data.py): one run of main()     *)
(*     over data.json, with the categorize endpoint as its environment;    *)
(*   - the Classification Service (src/main.py): the four request handlers *)
(*     running on one event loop, with the model provider as environment.  *)
(* JSON values are records [t, s, n]: a type tag, a string payload and an  *)
(* integer payload (a float is kept in tenths, so 0.9 is 9 and 1.5 is 15). *)
(* A JSON object is a function from its keys to JSON values.               *)
(***************************************************************************)
EXTENDS Integers, Sequences, FiniteSets, TLC

VARIABLES
    \* ---- Batch Annotator (src/categorize_data.py)
    fs,              \* data.json on disk
    orig,            \* data.json as it was when the run began (never changes)
    pc,              \* where main() / process_and_update_events stands
    data,            \* the parsed document (line 56)
    idx,             \* number of events the for loop has finished (line 59)
    updated_events,  \* line 58
    inflight,        \* categorize HTTP calls issued and not yet completed
    posted,          \* indices of the events an HTTP call was issued for, in order
    results,         \* per finished event: did categorization succeed, with what
    out,             \* what the run has printed (stdout and the traceback)
    writes,          \* number of json.dump calls on the file
    \* ---- Classification Service (src/main.py)
    rpc,             \* per request: where it stands
    endpoint,        \* per request: the endpoint it was sent to
    loop,            \* the request whose handler owns the event loop (0: none)
    invocations,     \* per request: number of chain.invoke calls
    response,        \* per request: the HTTP response sent
    modelReply       \* per request: what the model call produced

avars == <<fs, orig, pc, data, idx, updated_events, inflight, posted, results, out, writes>>
svars == <<rpc, endpoint, loop, invocations, response, modelReply>>
vars == <<avars, svars>>

\* Longest events list of the input file.
MaxEvents == 2
\* Number of HTTP requests the service receives.
NumRequests == 2

---------------------------------------------------------------------------
\* JSON values

S(x) == [t |-> "str", s |-> x, n |-> 0]
Num(k) == [t |-> "num", s |-> "", n |-> k]
Null == [t |-> "null", s |-> "", n |-> 0]
Detail(k) == [t |-> "detail", s |-> "", n |-> k]
EmptyObj == [k \in {} |-> Null]

IsStr(v) == v.t = "str"
\* pydantic (lax mode) takes a number, or a string that reads as one, for a float
IsFloat(v) == v.t = "num" \/ (v.t = "str" /\ v.s \in {"0.9"})

---------------------------------------------------------------------------
\* Batch Annotator: the input file

EventPool ==
    { [title |-> S("A"), description |-> S("d1")],
      [title |-> S("B"), description |-> S("d2"), category |-> S("old"),
       confidence |-> Num(5), id |-> Num(1)],
      [description |-> S("d3")],
      [title |-> Num(7), description |-> S("d4")],
      [title |-> S("E")] }

EventLists == UNION { [1..k -> EventPool] : k \in 0..MaxEvents }

\* A parsed document: a JSON array, or an object with an optional `version`
\* field and an `events` field that is absent, null or a list.
ArrayDoc == [obj |-> FALSE, hasVersion |-> FALSE, evKind |-> "absent", events |-> <<>>]
ObjDocs ==
    { [obj |-> TRUE, hasVersion |-> v, evKind |-> "absent", events |-> <<>>] : v \in BOOLEAN }
    \cup { [obj |-> TRUE, hasVersion |-> v, evKind |-> "null", events |-> <<>>] : v \in BOOLEAN }
    \cup { [obj |-> TRUE, hasVersion |-> v, evKind |-> "list", events |-> l] :
             v \in BOOLEAN, l \in EventLists }
Docs == {ArrayDoc} \cup ObjDocs

\* data.json: missing; bytes that are not UTF-8; text that is not JSON; a JSON
\* document. fmt is the layout of the text, tail says that bytes of an older,
\* longer content follow the document.
NoFile == [exists |-> FALSE, kind |-> "none", doc |-> ArrayDoc, fmt |-> "none", tail |-> FALSE]
Files ==
    { NoFile,
      [exists |-> TRUE, kind |-> "bytes", doc |-> ArrayDoc, fmt |-> "none", tail |-> FALSE],
      [exists |-> TRUE, kind |-> "text", doc |-> ArrayDoc, fmt |-> "none", tail |-> FALSE] }
    \cup { [exists |-> TRUE, kind |-> "json", doc |-> d, fmt |-> "orig", tail |-> FALSE] :
             d \in Docs }

---------------------------------------------------------------------------
\* Batch Annotator: the categorize endpoint as the client sees it

Body(o) == [json |-> TRUE, isObj |-> TRUE, obj |-> o]
NotJsonBody == [json |-> FALSE, isObj |-> FALSE, obj |-> EmptyObj]
ListBody == [json |-> TRUE, isObj |-> FALSE, obj |-> EmptyObj]
Http(st, b) == [transport |-> FALSE, status |-> st, body |-> b]
TransportError == [transport |-> TRUE, status |-> 0, body |-> NotJsonBody]

Responses ==
    { TransportError,
      Http(503, NotJsonBody),
      Http(500, Body([detail |-> S("boom")])),
      Http(200, Body([category |-> S("Traffic"), confidence |-> Num(9)])),
      Http(200, Body([category |-> S(""), confidence |-> S("0.9")])),
      Http(200, Body([category |-> S("Kultura"), confidence |-> Num(15), note |-> S("x")])),
      Http(200, Body([category |-> S("Traffic")])),
      Http(200, Body([category |-> Num(3), confidence |-> Num(9)])),
      Http(200, NotJsonBody),
      Http(200, ListBody) }

---------------------------------------------------------------------------
\* Batch Annotator: categorize_event

\* CategoryInput(title=event_data['title'], description=event_data['description'])
BuildOk(event) ==
    /\ "title" \in DOMAIN event
    /\ "description" \in DOMAIN event
    /\ IsStr(event["title"])
    /\ IsStr(event["description"])

\* response.raise_for_status()
StatusOk(resp) == resp.status >= 200 /\ resp.status <= 299

\* CategoryOutput(**response.json())
ShapeOk(body) ==
    /\ body.json
    /\ body.isObj
    /\ "category" \in DOMAIN body.obj
    /\ "confidence" \in DOMAIN body.obj
    /\ IsStr(body.obj["category"])
    /\ IsFloat(body.obj["confidence"])

CallOk(resp) == ~resp.transport /\ StatusOk(resp) /\ ShapeOk(resp.body)

\* None, as categorize_event returns it
None == EmptyObj

CategoryInfoWithConfidence(resp) ==
    IF CallOk(resp)
    THEN [category |-> resp.body.obj["category"], confidence |-> resp.body.obj["confidence"]]
    ELSE None

\* what categorize_event returns for a reply
CategoryInfo(resp) ==
    IF CallOk(resp) THEN [category |-> resp.body.obj["category"]] ELSE None

\* what categorize_event prints for a reply
ErrorLine(resp, event) ==
    IF resp.transport \/ ~StatusOk(resp)
    THEN [kind |-> "error_categorizing", title |-> event["title"].s]
    ELSE [kind |-> "unexpected_error", title |-> event["title"].s]

Line(k) == [kind |-> k, title |-> ""]

---------------------------------------------------------------------------
\* Batch Annotator: process_and_update_events

\* `if category_info:`
Truthy(info) == DOMAIN info # {}

\* {**event, **category_info}
Merge(event, info) ==
    [k \in DOMAIN event \cup DOMAIN info |->
        IF k \in DOMAIN info THEN info[k] ELSE event[k]]

UpdatedEventNullCategory(event, info) ==
    IF Truthy(info) THEN Merge(event, info) ELSE Merge(event, [category |-> Null])

\* the record appended to updated_events
UpdatedEvent(event, info) ==
    IF Truthy(info) THEN Merge(event, info) ELSE event

Events == data.events

Terminal == {"exit", "crashed", "killed"}

\* open(filepath, "r+"); a missing file is reported and the function returns
Open ==
    /\ pc = "start"
    /\ IF fs.exists
       THEN pc' = "load" /\ out' = out
       ELSE pc' = "returned" /\ out' = Append(out, Line("not_found"))
    /\ UNCHANGED <<fs, orig, data, idx, updated_events, inflight, posted, results, writes>>
    /\ UNCHANGED svars

\* json.load(f): only json.JSONDecodeError is caught
Load ==
    /\ pc = "load"
    /\ CASE fs.kind = "bytes" ->
              pc' = "crashed" /\ out' = Append(out, Line("traceback")) /\ data' = data
         [] fs.kind = "text" ->
              pc' = "returned" /\ out' = Append(out, Line("invalid_json")) /\ data' = data
         [] OTHER ->
              pc' = "get" /\ out' = out /\ data' = fs.doc
    /\ UNCHANGED <<fs, orig, idx, updated_events, inflight, posted, results, writes>>
    /\ UNCHANGED svars

\* events = data.get("events", []); updated_events = []
GetEvents ==
    /\ pc = "get"
    /\ IF data.obj
       THEN pc' = "loop" /\ out' = out
       ELSE pc' = "crashed" /\ out' = Append(out, Line("traceback"))
    /\ updated_events' = <<>>
    /\ UNCHANGED <<fs, orig, data, idx, inflight, posted, results, writes>>
    /\ UNCHANGED svars

\* `for event in events:` and the start of categorize_event for the next event:
\* the request is built outside the try, then posted
ForNext ==
    /\ pc = "loop"
    /\ CASE data.evKind = "null" ->
              /\ pc' = "crashed" /\ out' = Append(out, Line("traceback"))
              /\ UNCHANGED <<inflight, posted>>
         [] data.evKind # "null" /\ idx = Len(Events) ->
              /\ pc' = "assign"
              /\ UNCHANGED <<out, inflight, posted>>
         [] data.evKind # "null" /\ idx < Len(Events) /\ ~BuildOk(Events[idx + 1]) ->
              /\ pc' = "crashed" /\ out' = Append(out, Line("traceback"))
              /\ UNCHANGED <<inflight, posted>>
         [] OTHER ->
              /\ pc' = "await"
              /\ inflight' = inflight + 1
              /\ posted' = Append(posted, idx + 1)
              /\ out' = out
    /\ UNCHANGED <<fs, orig, data, idx, updated_events, results, writes>>
    /\ UNCHANGED svars

RespondWriteThrough(resp) ==
    /\ pc = "await"
    /\ LET event == Events[idx + 1]
           info == CategoryInfo(resp)
       IN /\ updated_events' = Append(updated_events, UpdatedEvent(event, info))
          /\ results' = Append(results,
                           [ok |-> CallOk(resp),
                            category |-> IF CallOk(resp) THEN resp.body.obj["category"] ELSE Null])
          /\ out' = IF CallOk(resp) THEN out ELSE Append(out, ErrorLine(resp, event))
          /\ fs' = [fs EXCEPT !.doc = [data EXCEPT !.evKind = "list",
                                                   !.events = updated_events'],
                              !.fmt = "indent4"]
    /\ inflight' = inflight - 1
    /\ idx' = idx + 1
    /\ pc' = "loop"
    /\ writes' = writes + 1
    /\ UNCHANGED <<orig, data, posted>>
    /\ UNCHANGED svars

\* the awaited post completes; the reply is checked, the event record appended
Respond(resp) ==
    /\ pc = "await"
    /\ LET event == Events[idx + 1]
           info == CategoryInfo(resp)
       IN /\ updated_events' = Append(updated_events, UpdatedEvent(event, info))
          /\ results' = Append(results,
                           [ok |-> CallOk(resp),
                            category |-> IF CallOk(resp) THEN resp.body.obj["category"] ELSE Null])
          /\ out' = IF CallOk(resp) THEN out ELSE Append(out, ErrorLine(resp, event))
    /\ inflight' = inflight - 1
    /\ idx' = idx + 1
    /\ pc' = "loop"
    /\ UNCHANGED <<fs, orig, data, posted, writes>>
    /\ UNCHANGED svars

\* data["events"] = updated_events; f.seek(0)
Assign ==
    /\ pc = "assign"
    /\ data' = [data EXCEPT !.evKind = "list", !.events = updated_events]
    /\ pc' = "dump"
    /\ UNCHANGED <<fs, orig, idx, updated_events, inflight, posted, results, out, writes>>
    /\ UNCHANGED svars

\* json.dump(data, f, indent=4, ensure_ascii=False): the document replaces the
\* start of the content; what the older content had beyond it stays
Dump ==
    /\ pc = "dump"
    /\ \E leftover \in BOOLEAN :
          fs' = [fs EXCEPT !.doc = data, !.fmt = "indent4", !.tail = leftover]
    /\ writes' = writes + 1
    /\ pc' = "truncate"
    /\ UNCHANGED <<orig, data, idx, updated_events, inflight, posted, results, out>>
    /\ UNCHANGED svars

\* f.truncate(), and the end of the with block
Truncate ==
    /\ pc = "truncate"
    /\ fs' = [fs EXCEPT !.tail = FALSE]
    /\ pc' = "returned"
    /\ UNCHANGED <<orig, data, idx, updated_events, inflight, posted, results, out, writes>>
    /\ UNCHANGED svars

\* main(): the print after `await process_and_update_events(...)`
Report ==
    /\ pc = "returned"
    /\ out' = Append(out, Line("success"))
    /\ pc' = "exit"
    /\ UNCHANGED <<fs, orig, data, idx, updated_events, inflight, posted, results, writes>>
    /\ UNCHANGED svars

\* the process is killed
Kill ==
    /\ pc \notin Terminal
    /\ pc' = "killed"
    /\ UNCHANGED <<fs, orig, data, idx, updated_events, inflight, posted, results, out, writes>>
    /\ UNCHANGED svars

AnnotatorInit ==
    /\ fs \in Files
    /\ orig = fs
    /\ pc = "start"
    /\ data = ArrayDoc
    /\ idx = 0
    /\ updated_events = <<>>
    /\ inflight = 0
    /\ posted = <<>>
    /\ results = <<>>
    /\ out = <<>>
    /\ writes = 0

ANext ==
    \/ Open
    \/ Load
    \/ GetEvents
    \/ ForNext
    \/ \E resp \in Responses : Respond(resp)
    \/ Assign
    \/ Dump
    \/ Truncate
    \/ Report
    \/ Kill

---------------------------------------------------------------------------
\* Classification Service: output shapes (the pydantic models of src/main.py)

Endpoints ==
    {"categorize_event", "analyze_sentiment", "create_new_event", "verify_event_information"}

\* the fields of the endpoint's output model
ShapeFields(ep) ==
    CASE ep = "categorize_event" -> {"category", "confidence"}
      [] ep = "analyze_sentiment" -> {"agitation", "neutral", "positive"}
      [] ep = "create_new_event" -> {"title", "description"}
      [] OTHER -> {"comparison", "correctness", "justification", "public_response"}

\* SentimentDetail: strength: int = Field(ge=0, le=100), detectedEmotions: List[str]
SentimentDetailOk(v) == v.t = "detail" /\ v.n >= 0 /\ v.n <= 100

\* the field's declared type (and range, where one is declared) accepts the value
FieldOk(ep, k, v) ==
    CASE ep = "categorize_event" /\ k = "confidence" -> IsFloat(v)
      [] ep = "analyze_sentiment" -> SentimentDetailOk(v)
      [] OTHER -> IsStr(v)

\* the reply object validates against the endpoint's output model
Matches(ep, o) ==
    \A k \in ShapeFields(ep) : k \in DOMAIN o /\ FieldOk(ep, k, o[k])

\* a float field read from a numeric string
Coerce(ep, k, v) ==
    IF ep = "categorize_event" /\ k = "confidence" /\ v.t = "str" THEN Num(9) ELSE v

\* the validated model: the declared fields only, coerced
Validated(ep, o) == [k \in ShapeFields(ep) |-> Coerce(ep, k, o[k])]

---------------------------------------------------------------------------
\* Classification Service: the model provider's replies

ProviderError == [error |-> TRUE, json |-> FALSE, isObj |-> FALSE, obj |-> EmptyObj]
NotJsonReply == [error |-> FALSE, json |-> FALSE, isObj |-> FALSE, obj |-> EmptyObj]
ListReply == [error |-> FALSE, json |-> TRUE, isObj |-> FALSE, obj |-> EmptyObj]
Reply(o) == [error |-> FALSE, json |-> TRUE, isObj |-> TRUE, obj |-> o]

Replies ==
    { ProviderError, NotJsonReply, ListReply,
      Reply([category |-> S("Traffic"), confidence |-> Num(9)]),
      Reply([category |-> S("Traffic"), confidence |-> S("0.9"), note |-> S("x")]),
      Reply([category |-> S("Traffic"), confidence |-> Num(15)]),
      Reply([category |-> S("Traffic"), confidence |-> Num(0 - 2)]),
      Reply([category |-> S("Traffic")]),
      Reply([agitation |-> Detail(20), neutral |-> Detail(30), positive |-> Detail(50)]),
      Reply([agitation |-> Detail(120), neutral |-> Detail(30), positive |-> Detail(50)]),
      Reply([agitation |-> Detail(20), neutral |-> Detail(30)]),
      Reply([title |-> S("t"), description |-> S("d")]),
      Reply([title |-> S("t"), description |-> Num(1)]),
      Reply([comparison |-> S("c"), correctness |-> S("Correct"),
             justification |-> S("j"), public_response |-> S("p")]),
      Reply([comparison |-> S("c"), correctness |-> S("Correct")]) }

---------------------------------------------------------------------------
\* Classification Service: the chains and the handlers

\* the parser that ends the endpoint's chain
ChainParser(ep) ==
    IF ep \in {"categorize_event", "analyze_sentiment"} THEN "pydantic" ELSE "json"

Raised(text) == [raised |-> TRUE, error |-> text, value |-> EmptyObj]
Returned(o) == [raised |-> FALSE, error |-> "", value |-> o]

\* chain.invoke(...): prompt | llm | parser
ChainInvoke(ep, reply) ==
    CASE reply.error -> Raised("provider_error")
      [] ~reply.error /\ ~reply.json -> Raised("output_parser_error")
      [] ~reply.error /\ reply.json /\ ChainParser(ep) = "json" ->
            Returned(reply)
      [] ~reply.error /\ reply.json /\ ChainParser(ep) = "pydantic"
            /\ reply.isObj /\ Matches(ep, reply.obj) ->
            Returned(Validated(ep, reply.obj))
      [] OTHER -> Raised("output_parser_error")

\* what the try block makes of the chain's result: the pydantic chains return it,
\* the json chains build the output model from it (NewEventOutput(**result))
TryBlock(ep, reply) ==
    LET r == ChainInvoke(ep, reply) IN
    CASE r.raised -> r
      [] ~r.raised /\ ChainParser(ep) = "pydantic" -> r
      [] ~r.raised /\ ChainParser(ep) = "json" /\ ~r.value.isObj -> Raised("type_error")
      [] ~r.raised /\ ChainParser(ep) = "json" /\ r.value.isObj
            /\ ~Matches(ep, r.value.obj) -> Raised("validation_error")
      [] OTHER -> Returned(Validated(ep, r.value.obj))

HttpResponse(st, d, b) == [status |-> st, detail |-> d, body |-> b]
NoResponse == HttpResponse(0, "", EmptyObj)

HandlerNoCatch(ep, reply) ==
    LET r == TryBlock(ep, reply) IN
    IF r.raised
    THEN HttpResponse(500, "Internal Server Error", EmptyObj)
    ELSE HttpResponse(200, "", r.value)

\* the handler: try ... except Exception as e: raise HTTPException(500, str(e))
Handler(ep, reply) ==
    LET r == TryBlock(ep, reply) IN
    IF r.raised
    THEN HttpResponse(500, r.error, EmptyObj)
    ELSE HttpResponse(200, "", r.value)

LoopWhileInvokingAwaited(r) == 0

\* who owns the event loop while request r's chain.invoke runs: the handlers
\* are `async def` and call invoke without an await, so the handler itself
LoopWhileInvoking(r) == r

Requests == 1..NumRequests

\* a client sends a request; it waits in the socket until the loop takes it
Send(r) ==
    /\ rpc[r] = "idle"
    /\ \E ep \in Endpoints, valid \in BOOLEAN :
          /\ endpoint' = [endpoint EXCEPT ![r] = ep]
          /\ rpc' = [rpc EXCEPT ![r] = IF valid THEN "sent" ELSE "sent_invalid"]
    /\ UNCHANGED <<loop, invocations, response, modelReply>>
    /\ UNCHANGED avars

\* the loop takes a request whose body fails the input model: 422, no handler
Reject(r) ==
    /\ rpc[r] = "sent_invalid"
    /\ loop = 0
    /\ response' = [response EXCEPT ![r] = HttpResponse(422, "request_validation", EmptyObj)]
    /\ rpc' = [rpc EXCEPT ![r] = "responded"]
    /\ UNCHANGED <<endpoint, loop, invocations, modelReply>>
    /\ UNCHANGED avars

\* the loop takes a valid request and runs its handler up to chain.invoke
Dispatch(r) ==
    /\ rpc[r] = "sent"
    /\ loop = 0
    /\ rpc' = [rpc EXCEPT ![r] = "invoking"]
    /\ invocations' = [invocations EXCEPT ![r] = @ + 1]
    /\ loop' = LoopWhileInvoking(r)
    /\ UNCHANGED <<endpoint, response, modelReply>>
    /\ UNCHANGED avars

\* the model call ends; the handler runs to its end and the response is sent
InvokeReturns(r) ==
    /\ rpc[r] = "invoking"
    /\ loop = LoopWhileInvoking(r)
    /\ \E reply \in Replies :
          /\ modelReply' = [modelReply EXCEPT ![r] = reply]
          /\ response' = [response EXCEPT ![r] = Handler(endpoint[r], reply)]
    /\ rpc' = [rpc EXCEPT ![r] = "responded"]
    /\ loop' = 0
    /\ UNCHANGED <<endpoint, invocations>>
    /\ UNCHANGED avars

ServiceInit ==
    /\ rpc = [r \in Requests |-> "idle"]
    /\ endpoint = [r \in Requests |-> "categorize_event"]
    /\ loop = 0
    /\ invocations = [r \in Requests |-> 0]
    /\ response = [r \in Requests |-> NoResponse]
    /\ modelReply = [r \in Requests |-> NotJsonReply]

SNext ==
    \E r \in Requests :
        \/ Send(r)
        \/ Reject(r)
        \/ Dispatch(r)
        \/ InvokeReturns(r)

InitAnnotator == AnnotatorInit /\ ServiceInit

InitService ==
    /\ ServiceInit
    /\ fs = NoFile /\ orig = NoFile /\ pc = "start" /\ data = ArrayDoc /\ idx = 0
    /\ updated_events = <<>> /\ inflight = 0 /\ posted = <<>> /\ results = <<>>
    /\ out = <<>> /\ writes = 0

\* one run of the Batch Annotator
SpecAnnotator == InitAnnotator /\ [][ANext]_vars

\* the Classification Service serving NumRequests requests
SpecService == InitService /\ [][SNext]_vars

---------------------------------------------------------------------------
\* Properties of the Batch Annotator (checked under SpecAnnotator)

In == orig.doc.events

HasLine(k) == \E i \in 1..Len(out) : out[i].kind = k

ValidEventsFile == orig.kind = "json" /\ orig.doc.obj /\ orig.doc.evKind # "null"

\* C1: once the file has been written, the written document has the input's
\* top-level fields other than `events`, as many events in the same order, each
\* equal to the input event in every field other than `category`, and exactly
\* equal to it where categorization failed.
C1_WrittenDocumentFrame ==
    writes > 0 =>
        /\ fs.doc.obj = orig.doc.obj
        /\ fs.doc.hasVersion = orig.doc.hasVersion
        /\ Len(fs.doc.events) = Len(In)
        /\ Len(results) = Len(In)
        /\ \A i \in 1..Len(In) :
              LET a == In[i]
                  b == fs.doc.events[i]
              IN /\ DOMAIN b \ {"category"} = DOMAIN a \ {"category"}
                 /\ \A k \in DOMAIN a \ {"category"} : b[k] = a[k]
                 /\ ~results[i].ok => b = a

\* C1's case: a written file with a version field, whose first event was
\* categorized and whose second event's categorization failed.
C1_Witness ==
    /\ pc = "exit"
    /\ writes = 1
    /\ orig.doc.hasVersion
    /\ Len(results) = 2
    /\ results[1].ok
    /\ ~results[2].ok

\* C2: over a file that holds an events list, no event's failure ends the run
\* early: the run does not crash, and when it has ended every event has been
\* processed, every failed one has its log line and the file has been written.
C2_EventFailureNeverAbortsBatch ==
    (ValidEventsFile /\ pc \in {"crashed", "exit"}) =>
        /\ pc = "exit"
        /\ Len(updated_events) = Len(In)
        /\ writes = 1
        /\ \A i \in 1..Len(results) :
              ~results[i].ok =>
                  \E j \in 1..Len(out) :
                      /\ out[j].kind \in {"error_categorizing", "unexpected_error"}
                      /\ out[j].title = In[i]["title"].s

\* C3: when the file is missing or its content is not valid JSON, nothing is
\* written, no categorize call is made, the file stays as it was, and once
\* process_and_update_events is over the matching failure has been printed.
C3_FatalErrorReportedWithoutWrite ==
    (~orig.exists \/ orig.kind \in {"bytes", "text"}) =>
        /\ fs = orig
        /\ writes = 0
        /\ posted = <<>>
        /\ pc \in {"returned", "exit", "crashed"} =>
              HasLine(IF orig.exists THEN "invalid_json" ELSE "not_found")

\* C4: the success line is printed only in a run that has overwritten the file,
\* and a run that met a missing or invalid file prints no success line.
C4_SuccessOnlyAfterOverwrite ==
    HasLine("success") =>
        /\ writes = 1
        /\ ~fs.tail
        /\ ~HasLine("not_found")
        /\ ~HasLine("invalid_json")

\* C5: the file is written at most once, and only after every event has been
\* processed and no call is outstanding; until then its content is the
\* original one, so a run killed inside the loop leaves the file as it was; a
\* run over a JSON file that returns has written exactly once.
C5_SingleWriteAfterLoop ==
    /\ writes <= 1
    /\ (writes > 0 \/ fs # orig) =>
          /\ idx = Len(In)
          /\ Len(updated_events) = Len(In)
          /\ inflight = 0
          /\ pc \in {"truncate", "returned", "exit", "killed"}
    /\ (pc \in {"returned", "exit"} /\ orig.kind = "json") => writes = 1

\* C5's case: the run was killed after the first of two events was categorized,
\* and the file is the original one.
C5_Witness ==
    /\ pc = "killed"
    /\ Len(In) = 2
    /\ Len(updated_events) = 1
    /\ results[1].ok
    /\ fs = orig

C10_OneCallPerEventInOrder ==
    /\ inflight <= 1
    /\ \A i, j \in 1..Len(posted) : i < j => posted[i] < posted[j]
    /\ Len(posted) - inflight = Len(results)
    /\ (ValidEventsFile /\ pc \in {"crashed", "exit"}) =>
          \A i \in 1..Len(In) :
              BuildOk(In[i]) => Cardinality({j \in 1..Len(posted) : posted[j] = i}) = 1

---------------------------------------------------------------------------
\* Properties of the Classification Service (checked under SpecService)

Responded(r) == rpc[r] = "responded" /\ invocations[r] > 0

\* the model call failed, the reply is not JSON, or it does not match the shape
ReplyFails(ep, reply) ==
    reply.error \/ ~reply.json \/ ~reply.isObj \/ ~Matches(ep, reply.obj)

\* str(e) of the failure
FailureText(ep, reply) ==
    CASE reply.error -> "provider_error"
      [] ~reply.error /\ ~reply.json -> "output_parser_error"
      [] ~reply.error /\ reply.json /\ ep \in {"categorize_event", "analyze_sentiment"} ->
            "output_parser_error"
      [] ~reply.error /\ reply.json /\ ep \in {"create_new_event", "verify_event_information"}
            /\ ~reply.isObj -> "type_error"
      [] OTHER -> "validation_error"

\* C7: a 200 response of the categorize endpoint carries a confidence in
\* [0.0, 1.0] (0..10 in tenths).
C7_ConfidenceInUnitInterval ==
    \A r \in Requests :
        (Responded(r) /\ endpoint[r] = "categorize_event" /\ response[r].status = 200) =>
            /\ response[r].body["confidence"].n >= 0
            /\ response[r].body["confidence"].n <= 10

\* C8: on every endpoint, a request whose model call failed, whose reply is not
\* JSON or does not match the endpoint's output model is answered by HTTP 500
\* with the failure's text as detail and no result body, after one model
\* invocation; no request has more than one invocation.
C8_FailureIsOne500 ==
    \A r \in Requests :
        /\ invocations[r] <= 1
        /\ (Responded(r) /\ ReplyFails(endpoint[r], modelReply[r])) =>
              /\ response[r].status = 500
              /\ response[r].detail = FailureText(endpoint[r], modelReply[r])
              /\ response[r].body = EmptyObj
              /\ invocations[r] = 1

\* C8's case: a json-chain endpoint has answered a reply that misses the shape,
\* and a pydantic-chain endpoint a failed model call.
C8_Witness ==
    /\ rpc[1] = "responded" /\ endpoint[1] = "create_new_event"
    /\ response[1].status = 500 /\ response[1].detail = "validation_error"
    /\ rpc[2] = "responded" /\ endpoint[2] = "categorize_event"
    /\ response[2].status = 500 /\ response[2].detail = "provider_error"

\* C9 as stated: while a request's model call is outstanding its handler has
\* yielded the event loop.
C9_ModelCallYieldsLoop ==
    \A r \in Requests : rpc[r] = "invoking" => loop # r

\* C9 amended: while a request's model call is outstanding its handler holds
\* the event loop, and no other request's handler has started.
C9_ModelCallHoldsLoop ==
    \A r \in Requests :
        rpc[r] = "invoking" =>
            /\ loop = r
            /\ \A q \in Requests \ {r} : rpc[q] # "invoking"

\* C9 amended, as a step property: while a model call is outstanding, no other
\* request is taken up
C9_NothingStartsDuringModelCall ==
    [][\A r \in Requests :
          (rpc[r] = "invoking" /\ rpc'[r] = "invoking") =>
              \A q \in Requests : rpc'[q] \in {"invoking", "responded"} => rpc'[q] = rpc[q]]_vars

\* C9's case: a second request has been sent and waits while the first
\* request's model call is outstanding.
C9_Witness ==
    /\ rpc[1] = "invoking"
    /\ rpc[2] = "sent"

=============================================================================
